---- MODULE Spec2Model ----
(***************************************************************************)
(* goimapsync: reconciliation of IMAP INBOXes with a local Maildir.        *)
(* The model follows client.go (the version that starts at line 397) and   *)
(* the DB module: one action per step of main, Fetch, imapSnapshot,        *)
(* writeMail, Sync, syncMails and MoveMessage.                             *)
(*                                                                         *)
(* Strings that the code splits on "." (file paths) are kept as the        *)
(* sequence of their dot-free pieces, so strings.Split(s, ".") is the      *)
(* sequence itself and concatenation joins the two boundary pieces.        *)
(***************************************************************************)
EXTENDS Integers, Sequences, FiniteSets, TLC

\* ---------------------------------------------------------------- bounds
MaxInbox == 2       \* messages the INBOXes of all servers hold together
MaxTime == 1        \* the wall clock runs over 0..MaxTime
MaxRuns == 2        \* runs of the program in one behaviour
MaxRows == 1        \* rows the index holds at most

\* ---------------------------------------------------------------- inputs
Servers == {"A", "B"}
MsgIds == {"m1", "m2", ""}
hostname == "host"
INBOX == "INBOX"
Nil == "nil"

SeenFlag == "Seen"
RecentFlag == "Recent"
AnsweredFlag == "Answered"
DeletedFlag == "Deleted"

\* the two maildir roots tried: "/mail" and "/home/u/.mail"
Roots == {<<"/mail">>, <<"/home/u/", "mail">>}

\* messages a server can receive: the Message-ID, and whether the fetch
\* response carries an envelope; a message arrives without flags
Deliverable ==
    [mid : MsgIds, env : {TRUE}, flags : {<<>>}]
        \cup {[mid |-> "m2", env |-> FALSE, flags |-> <<>>]}

\* the second server receives copies of one message only
DeliverableTo(s) ==
    IF s = "A" THEN Deliverable ELSE {msg \in Deliverable : msg.mid = "m1"}

Ops == {"fetch-new", "fetch-all", "sync", "fullsync", "move"}

\* flag lists a server reports for a message, "Flagged" being a flag that
\* writeMail does not translate
FlagLists ==
    {<<>>, <<SeenFlag>>, <<DeletedFlag>>,
     <<DeletedFlag, AnsweredFlag, SeenFlag>>, <<"Junk", "Flagged">>,
     <<RecentFlag, AnsweredFlag>>}

\* messages that arrive with flags set
Flagged == [mid : {"m1", "m2"}, env : {TRUE}, flags : FlagLists]

\* values of flag -folder and of flag -mid of a move
MoveTargets == {"spam", "Work", "junk", ""}
Matches == {"m1", ""}

\* folder lists a server can report
FolderLists == {<<"INBOX", "SPAM", "work", "Work">>, <<>>}

\* values of flag -folder of a fetch
FetchFolders == {"INBOX", "Lists/go"}

\* strings.Replace(folder, "/", ".", -1) on the folder names in use
SlashToDot(name) ==
    CASE name = "Lists/go" -> "Lists.go"
      [] OTHER -> name

\* strings.Split(fdir, ".") on the local folders in use
Pieces(fdir) ==
    CASE fdir = "Lists.go" -> <<"Lists", "go">>
      [] fdir = "A/Lists.go" -> <<"A/Lists", "go">>
      [] fdir = "B/Lists.go" -> <<"B/Lists", "go">>
      [] OTHER -> <<fdir>>

\* strings.ToLower on the folder names in use
ToLower(name) ==
    CASE name \in {"INBOX", "Inbox", "inbox"} -> "inbox"
      [] name \in {"SPAM", "Spam", "spam"} -> "spam"
      [] name \in {"Work", "work"} -> "work"
      [] OTHER -> name

VARIABLES
    Config,     \* [Maildir, CommonInbox]
    server,     \* server[s]: the INBOX of s, a sequence of messages
    fs,         \* the files under the maildir: [fdir, sub, name]
    index,      \* rows of table messages
    now,        \* time.Now().Unix()
    pc,         \* where main is
    op, dryRun, \* flags -op and -dryRun of the run
    runs,       \* runs started so far
    todo,       \* servers the current "range cmap" loop has not visited
    workers,    \* writeMail goroutines of the current imapSnapshot
    mdict,      \* Sync's local variable mdict (keys of the map)
    spawned,    \* servers whose snapshot goroutine Sync started
    mch,        \* Sync's channel mch
    nrecv,      \* snapshots Sync has received from mch
    snaps,      \* snaps[s]: the snapshot received for s
    mlist,      \* Sync's mlist, the delete set
    cur,        \* syncMails: the server of the outer loop, or Nil
    pos,        \* syncMails: position of the inner loop in mlist
    issued,     \* store/copy/expunge commands issued in this run
    unseen0,    \* unseen0[s]: Message-IDs unseen on s when the run started
    inbox0,     \* inbox0[s]: the INBOX of s when Sync took its snapshot
    prevAll,    \* the maildir as the last fetch-all left it, or Nil
    failed,     \* servers whose Select failed in imapSnapshot in this run
    sess,       \* sess[s]: the session of s: "none", "open", "out", "failed"
    imapFolders,\* imapFolders[s]: the folder list main has read from s
    mvto,       \* flag -folder of a move
    match,      \* flag -mid of a move
    dest,       \* dest[s]: the messages of the destination folder on s
    mvlog,      \* the IMAP commands of a move, in the order they were issued
    ret,        \* what the last call of the DB module returned to its caller
    flagFolder, \* flag -folder of a fetch-new or fetch-all
    cutoff,     \* servers whose streamed fetch ended in an error in this run
    fetching,   \* sessions on which a fetch that Move started is in flight
    overlap,    \* commands issued on a session while its fetch was in flight
    wg,         \* imapSnapshot's sync.WaitGroup: the value of its counter
    ch,         \* connect's channel ch: the names of the clients sent, not received
    cmap,       \* connect's cmap: the names that have a client in the map
    chClosed    \* whether connect's deferred close(ch) has run

vars == <<Config, server, fs, index, now, pc, op, dryRun, runs, todo, workers,
          mdict, spawned, mch, nrecv, snaps, mlist, cur, pos, issued,
          unseen0, inbox0, prevAll, failed, sess, imapFolders, mvto, match,
          dest, mvlog, ret, flagFolder, cutoff, fetching, overlap, wg, ch, cmap, chClosed>>

\* what only a run of -op=move changes
moveVars == <<sess, imapFolders, mvto, match, dest, mvlog>>

\* what the runs without a fault, without a caller of the DB module and
\* without flag -folder leave as it is
extVars == <<ret, flagFolder, wg, ch, cmap, chClosed, cutoff, fetching, overlap>>

\* ------------------------------------------------------- string helpers
Front(s) == SubSeq(s, 1, Len(s) - 1)
Last(s) == s[Len(s)]

\* concatenation of two strings kept as dot-free pieces
Join(a, b) == Front(a) \o <<Last(a) \o Head(b)>> \o Tail(b)

RECURSIVE Concat(_)
Concat(letters) ==
    IF letters = <<>> THEN "" ELSE Head(letters) \o Concat(Tail(letters))

Range(s) == {s[i] : i \in DOMAIN s}

\* -------------------------------------------------------------- md5hash
md5hash(mid) == "md5(" \o mid \o ")"

\* ---------------------------------------------------------- localFolder
\* one folder for all servers, whatever Config.CommonInbox says
localFolderShared(imapName, folder) == folder

localFolder(imapName, folder) ==
    IF imapName = "" THEN folder
    ELSE IF ToLower(folder) = "inbox" /\ Config.CommonInbox THEN folder
    ELSE imapName \o "/" \o folder

\* fmt.Sprintf("%s/%s/%s", Config.Maildir, fdir, d)
DirPath(fdir, d) ==
    Join(Config.Maildir, Join(<<"/">>, Join(Pieces(fdir), <<"/" \o d>>)))

\* fmt.Sprintf("%s/%s", root, f.Name()) for file f of directory root
FilePath(f) ==
    Join(DirPath(f.fdir, f.sub), <<"/" \o Head(f.name)>> \o Tail(f.name))

\* ---------------------------------------------------------- readMaildir
\* the keys of the map readMaildir returns: arr[1] of every file of
\* cur, new and tmp, where arr is the full path split on "."
\* fdir of readMaildir: the folder whose cur, new and tmp it creates and
\* reads, with the slashes of the folder name replaced by dots
scanFolder(imapName, folder) == localFolder(imapName, SlashToDot(folder))

readMaildir(imapName, folder) ==
    LET fdir == scanFolder(imapName, folder)
        dirs == {"cur", "new", "tmp"}
    IN  {FilePath(f)[2] : f \in {g \in fs : g.fdir = fdir /\ g.sub \in dirs}}

\* ------------------------------------------------------- the IMAP server
HasFlag(msg, f) == f \in Range(msg.flags)

AddFlag(msg, f) ==
    IF HasFlag(msg, f) THEN msg ELSE [msg EXCEPT !.flags = Append(@, f)]

\* SEARCH for messages without the Seen flag
Search(s) == {i \in DOMAIN server[s] : ~HasFlag(server[s][i], SeenFlag)}

\* STORE +FLAGS f on sequence number seq
Store(inbox, seq, f) ==
    [i \in DOMAIN inbox |-> IF i = seq THEN AddFlag(inbox[i], f) ELSE inbox[i]]

\* EXPUNGE: every message that carries the Deleted flag goes
Expunge(inbox) == SelectSeq(inbox, LAMBDA msg : ~HasFlag(msg, DeletedFlag))

\* FETCH of BODY[] (no peek) sets the Seen flag on the fetched messages
FetchBody(inbox, ids) ==
    [i \in DOMAIN inbox |->
        IF i \in ids THEN AddFlag(inbox[i], SeenFlag) ELSE inbox[i]]

\* --------------------------------------------------------- imapSnapshot
NoFile == [fdir |-> "", sub |-> "", name |-> <<>>]

\* the loop over the fetched messages: the messages returned and the
\* writeMail goroutines started, for the messages ids of s in ascending order
RECURSIVE Consume(_, _, _, _, _, _)
Consume(s, i, ids, seqNum, acc, p) ==
    IF i > Len(server[s]) THEN acc
    ELSE IF i \notin ids \/ ~server[s][i].env
    THEN Consume(s, i + 1, ids, seqNum, acc, p)
    ELSE
        LET msg == server[s][i]
            mid == msg.mid
            hid == md5hash(mid)
            write == p.writeContent /\ hid \notin p.mdict
            flags == IF write /\ p.newMessages
                     THEN Append(msg.flags, RecentFlag) ELSE msg.flags
            m == [MessageId |-> mid, Flags |-> flags, Imap |-> s,
                  SeqNumber |-> seqNum, HashId |-> hid]
            w == [imapName |-> s, folder |-> p.folder, hid |-> hid,
                  flags |-> flags, pc |-> "stat", file |-> NoFile]
        IN  Consume(s, i + 1, ids, seqNum + 1,
                    [msgs |-> Append(acc.msgs, m),
                     ws |-> IF write THEN Append(acc.ws, w) ELSE acc.ws], p)

\* the messages of seqset that c.Fetch sends to channel messages when the
\* stream ends after n messages: the n first of ids
Delivered(ids, n) == {i \in ids : Cardinality({j \in ids : j < i}) < n}

\* [msgs, ws, ids, err]: the messages imapSnapshot returns, the writeMail
\* goroutines it starts, the sequence numbers the fetch delivers and
\* whether c.Fetch sends an error to channel done, which nothing reads;
\* n is the number of messages after which the stream ends
imapSnapshot(s, folder, newMessages, writeContent, n) ==
    LET seqset == IF newMessages THEN Search(s) ELSE DOMAIN server[s]
        ids == Delivered(seqset, n)
        p == [folder |-> folder, newMessages |-> newMessages,
              writeContent |-> writeContent,
              mdict |-> IF writeContent THEN readMaildir(s, folder) ELSE {}]
        r == Consume(s, 1, ids, 1, [msgs |-> <<>>, ws |-> <<>>], p)
    IN  [msgs |-> r.msgs, ws |-> r.ws, ids |-> ids, err |-> ids # seqset]

\* ------------------------------------------------------------ writeMail
\* a translation that writes the maildir letter T for the Deleted flag
FlagLetterTrashed(f) ==
    CASE f = SeenFlag -> "S"
      [] f = RecentFlag -> "N"
      [] f = AnsweredFlag -> "A"
      [] f = "Junk" -> "J"
      [] f = DeletedFlag -> "T"
      [] OTHER -> ""

FlagLetter(f) ==
    CASE f = SeenFlag -> "S"
      [] f = RecentFlag -> "N"
      [] f = AnsweredFlag -> "A"
      [] f = "Junk" -> "J"
      [] OTHER -> ""

\* the letters of variable flag, one per translated flag
FlagLetters(flags) ==
    LET all == [i \in DOMAIN flags |-> FlagLetter(flags[i])]
        kept == SelectSeq(all, LAMBDA l : l # "")
    IN  IF kept = <<>> THEN <<"S">> ELSE kept

\* fpath, as the folder, its subdirectory and the file name in it
TargetFile(w, tstamp) ==
    LET letters == FlagLetters(w.flags)
        isNew == "N" \in Range(letters)
    IN  [fdir |-> localFolder(w.imapName, w.folder),
         sub |-> IF isNew THEN "new" ELSE "cur",
         name |-> <<ToString(tstamp), w.hid,
                    IF isNew THEN hostname
                    ELSE hostname \o ":2," \o Concat(letters)>>]

\* ----------------------------------------------------------------- Init
NoSnaps == [s \in Servers |-> <<>>]
NoUnseen == [s \in Servers |-> {}]
NoPrev == [valid |-> FALSE, fs |-> {}]
NoSessions == [s \in Servers |-> "none"]
NoFolders == [s \in Servers |-> <<>>]
NoReturn ==
    [fn |-> "", hid |-> "", fault |-> "none", hit |-> FALSE, err |-> "nil",
     found |-> FALSE]

\* the state main starts in, but for the configuration and flag -folder
InitState ==
    /\ server = [s \in Servers |-> <<>>]
    /\ fs = {}
    /\ index = {}
    /\ now = 0
    /\ pc = "idle"
    /\ op = "sync"
    /\ dryRun = FALSE
    /\ runs = 0
    /\ todo = {}
    /\ workers = <<>>
    /\ mdict = {}
    /\ spawned = {}
    /\ mch = <<>>
    /\ nrecv = 0
    /\ snaps = NoSnaps
    /\ mlist = <<>>
    /\ cur = Nil
    /\ pos = 1
    /\ issued = {}
    /\ unseen0 = NoUnseen
    /\ inbox0 = NoSnaps
    /\ prevAll = NoPrev
    /\ failed = {}
    /\ sess = NoSessions
    /\ imapFolders = NoFolders
    /\ mvto = ""
    /\ match = ""
    /\ dest = NoSnaps
    /\ mvlog = <<>>
    /\ ret = NoReturn
    /\ cutoff = {}
    /\ fetching = {}
    /\ overlap = {}
    /\ wg = 0
    /\ ch = <<>>
    /\ cmap = {}
    /\ chClosed = FALSE

Init ==
    /\ Config \in [Maildir : Roots, CommonInbox : BOOLEAN]
    /\ flagFolder = INBOX
    /\ InitState

runVars == <<pc, op, dryRun, runs, todo, workers, mdict, spawned, mch, nrecv,
             snaps, mlist, cur, pos, issued, unseen0, inbox0>>
syncVars == <<mdict, spawned, mch, nrecv, snaps, mlist, cur, pos>>

\* ---------------------------------------------------------- environment
\* the number of messages on the servers
RECURSIVE Total(_)
Total(S) ==
    IF S = {} THEN 0
    ELSE LET s == CHOOSE x \in S : TRUE IN Len(server[s]) + Total(S \ {s})

Stored == Total(Servers)

\* a message arrives in the INBOX of s
Deliver(s, msg) ==
    /\ pc = "idle"
    /\ Stored < MaxInbox
    /\ server' = [server EXCEPT ![s] = Append(@, msg)]
    /\ prevAll' = NoPrev
    /\ UNCHANGED <<extVars, moveVars, failed, Config, fs, index, now, runVars>>

\* the user removes a mail file from the maildir
LocalDelete(f) ==
    /\ pc = "idle"
    /\ f \in fs
    /\ fs' = fs \ {f}
    /\ prevAll' = NoPrev
    /\ UNCHANGED <<extVars, moveVars, failed, Config, server, index, now, runVars>>

\* the wall clock advances by a second; the program reads it in writeMail
\* only, so the seconds that pass elsewhere are taken here
Tick ==
    /\ pc = "wait"
    /\ \E i \in DOMAIN workers : workers[i].pc = "stat"
    /\ now < MaxTime
    /\ now' = now + 1
    /\ UNCHANGED <<extVars, moveVars, failed, Config, server, fs, index, runVars, prevAll>>

\* ---------------------------------------------------------------- index
IndexMessages ==
    {[HashId |-> md5hash(mid), MessageId |-> mid, Path |-> "", Imap |-> "A"] :
        mid \in {"m1"}}

\* the rows after insertMessage(m): hid and mid are UNIQUE, a violation
\* leaves the table as it is
insertRows(rows, m) ==
    IF \E r \in rows : r.HashId = m.HashId \/ r.MessageId = m.MessageId
    THEN rows
    ELSE rows \cup {m}

insertMessage(m) ==
    /\ pc = "idle"
    /\ Cardinality(index) < MaxRows
    /\ index' = insertRows(index, m)
    /\ UNCHANGED <<extVars, moveVars, failed, Config, server, fs, now, runVars, prevAll>>

deleteRows(rows, hid) == {r \in rows : r.HashId # hid}

deleteMessage(hid) ==
    /\ pc = "idle"
    /\ index' = deleteRows(index, hid)
    /\ UNCHANGED <<extVars, moveVars, failed, Config, server, fs, now, runVars, prevAll>>

\* findMessage(hid) finds a row
findMessage(hid) == \E r \in index : r.HashId = hid

\* the messages a caller of the DB module passes to insertMessage
IndexRows ==
    {[HashId |-> md5hash(mid), MessageId |-> mid, Path |-> path, Imap |-> s] :
        mid \in {"m1", "m2"}, path \in {"cur", "new"}, s \in Servers}

\* the step of a transaction that returns an error: mdb.Begin, the
\* statement (tx.Exec, tx.Query), res.Scan or tx.Commit
DbFails == {"none", "begin", "exec", "scan", "commit"}

\* tx.Rollback() of a transaction that was not committed: nil when the
\* rollback succeeds
Rollback(rollbackOk) == IF rollbackOk THEN "nil" ELSE "err"

\* the statement of insertMessage(m) fails on a UNIQUE violation
Violates(rows, m) ==
    \E r \in rows : r.HashId = m.HashId \/ r.MessageId = m.MessageId

\* the error insertMessage(m) returns; tx.Rollback() after tx.Commit()
\* returns sql.ErrTxDone
insertReturn(rows, m, fail, rollbackOk) ==
    IF fail = "begin" THEN "err"
    ELSE IF fail = "exec" \/ Violates(rows, m) THEN Rollback(rollbackOk)
    ELSE IF fail = "commit" THEN "ErrTxDone"
    ELSE "nil"

\* a delete that reports a row that is not there
deleteReturnStrict(rows, hid, fail, rollbackOk) ==
    IF fail = "begin" THEN "err"
    ELSE IF fail = "exec" THEN Rollback(rollbackOk)
    ELSE IF fail = "commit" THEN "ErrTxDone"
    ELSE IF \A r \in rows : r.HashId # hid THEN "err"
    ELSE "nil"

\* the error deleteMessage(hid) returns
deleteReturn(rows, hid, fail, rollbackOk) ==
    IF fail = "begin" THEN "err"
    ELSE IF fail = "exec" THEN Rollback(rollbackOk)
    ELSE IF fail = "commit" THEN "ErrTxDone"
    ELSE "nil"

\* what findMessage(hid) returns: whether m is a row, and the error
findReturn(rows, hid, fail, rollbackOk) ==
    LET hit == \E r \in rows : r.HashId = hid
    IN  IF fail \in {"begin", "exec"} THEN [found |-> FALSE, err |-> "err"]
        ELSE IF ~hit THEN [found |-> FALSE, err |-> "nil"]
        ELSE IF fail = "scan"
        THEN [found |-> FALSE, err |-> Rollback(rollbackOk)]
        ELSE [found |-> TRUE, err |-> "nil"]

\* a caller of insertMessage(m) that keeps the error; hit says that the
\* table had a row of the fingerprint when the call was made
callInsert(m, fail, rollbackOk) ==
    /\ pc = "idle"
    /\ fail # "scan"
    /\ index' = IF fail = "none" THEN insertRows(index, m) ELSE index
    /\ ret' = [fn |-> "insert", hid |-> m.HashId, fault |-> fail,
               hit |-> Violates(index, m),
               err |-> insertReturn(index, m, fail, rollbackOk),
               found |-> FALSE]
    /\ UNCHANGED <<moveVars, failed, Config, server, fs, now, runVars, prevAll,
                   flagFolder, wg, ch, cmap, chClosed, cutoff, fetching, overlap>>

\* a caller of deleteMessage(hid) that keeps the error
callDelete(hid, fail, rollbackOk) ==
    /\ pc = "idle"
    /\ fail # "scan"
    /\ index' = IF fail = "none" THEN deleteRows(index, hid) ELSE index
    /\ ret' = [fn |-> "delete", hid |-> hid, fault |-> fail,
               hit |-> findMessage(hid),
               err |-> deleteReturn(index, hid, fail, rollbackOk),
               found |-> FALSE]
    /\ UNCHANGED <<moveVars, failed, Config, server, fs, now, runVars, prevAll,
                   flagFolder, wg, ch, cmap, chClosed, cutoff, fetching, overlap>>

\* a caller of findMessage(hid) that keeps the message and the error
callFind(hid, fail, rollbackOk) ==
    /\ pc = "idle"
    /\ fail # "commit"
    /\ LET r == findReturn(index, hid, fail, rollbackOk)
       IN  ret' = [fn |-> "find", hid |-> hid, fault |-> fail,
                   hit |-> findMessage(hid), err |-> r.err,
                   found |-> r.found]
    /\ UNCHANGED <<moveVars, failed, Config, server, fs, index, now, runVars,
                   prevAll, flagFolder, wg, ch, cmap, chClosed, cutoff, fetching, overlap>>

\* ----------------------------------------------------------------- main
UnseenMids(s) == {server[s][i].mid : i \in {j \in Search(s) : server[s][j].env}}

\* main parses the flags, connects and dispatches on op
Start(o, d) ==
    /\ pc = "idle"
    /\ runs < MaxRuns
    /\ runs' = runs + 1
    /\ op' = o
    /\ dryRun' = d
    /\ todo' = Servers
    /\ issued' = {}
    /\ pc' = IF o = "sync" THEN "Sync" ELSE "fetch"
    /\ unseen0' = IF o \in {"sync", "fullsync"}
                  THEN [s \in Servers |-> UnseenMids(s)] ELSE NoUnseen
    /\ prevAll' = IF o = "fetch-all" THEN prevAll ELSE NoPrev
    /\ failed' = {}
    /\ cutoff' = {}
    /\ UNCHANGED <<ret, flagFolder, wg, ch, cmap, chClosed, fetching, overlap, moveVars, Config, server,
                   fs, index, now, workers, syncVars, inbox0>>

\* a Select error that ends the process
selectReturnFatal(selectOk) == IF selectOk THEN "wait" ELSE "aborted"

\* where main is after c.Select in imapSnapshot: an error is logged and
\* imapSnapshot returns an empty list
selectReturn(selectOk) == "wait"

\* Fetch(c, name, folder, newMessages) up to wg.Wait() in imapSnapshot;
\* selectOk says whether c.Select(folder, false) succeeds, n after how
\* many messages the stream of c.Fetch ends
Fetch(s, selectOk, n) ==
    /\ pc = "fetch"
    /\ s \in todo
    /\ LET r == imapSnapshot(s, IF op = "fullsync" THEN INBOX ELSE flagFolder,
                             op # "fetch-all", TRUE, n)
       IN  /\ workers' = IF selectOk THEN r.ws ELSE <<>>
           /\ server' = IF selectOk
                         THEN [server EXCEPT ![s] = FetchBody(@, r.ids)]
                         ELSE server
           /\ cutoff' = IF selectOk /\ r.err THEN cutoff \cup {s} ELSE cutoff
           /\ wg' = IF selectOk THEN Len(r.ws) ELSE 0
    /\ failed' = IF selectOk THEN failed ELSE failed \cup {s}
    /\ todo' = todo \ {s}
    /\ pc' = selectReturn(selectOk)
    /\ UNCHANGED <<ret, flagFolder, ch, cmap, chClosed, fetching, overlap, moveVars, Config, fs, index,
                   now, op, dryRun, runs, syncVars, issued, unseen0, inbox0,
                   prevAll>>

\* the returns of writeMail: the file exists, os.Create fails, the read of
\* the message or a write fails, or all is written
ExitPaths == {"exists", "createError", "torn", "success"}

\* a writeMail that registers wg.Done only once it has created the file
wgDoneAfterCreate(path) == IF path \in {"exists", "createError"} THEN 0 ELSE 1

\* the calls of wg.Done() when writeMail returns on path: it is deferred
\* at the top of writeMail
wgDone(path) == 1

\* writeMail up to os.Stat(fpath)
writeMailStat(i) ==
    /\ pc = "wait"
    /\ i \in DOMAIN workers
    /\ workers[i].pc = "stat"
    /\ LET f == TargetFile(workers[i], now)
       IN  /\ workers' = [workers EXCEPT ![i] =
                  IF f \in fs THEN [@ EXCEPT !.pc = "done"]
                  ELSE [@ EXCEPT !.pc = "create", !.file = f]]
           /\ wg' = IF f \in fs THEN wg - wgDone("exists") ELSE wg
    /\ UNCHANGED <<ret, flagFolder, ch, cmap, chClosed, cutoff, fetching, overlap, moveVars, failed, Config, server, fs, index, now, pc, op, dryRun, runs, todo,
                   syncVars, issued, unseen0, inbox0, prevAll>>

\* the maildir has the directories that readMaildir has made with
\* os.MkdirAll for the snapshot of worker w, and no other
DirExists(w) == w.file.fdir = scanFolder(w.imapName, w.folder)

\* writeMail: os.Create(fpath) puts an empty file at the target path, or
\* returns an error for a directory that does not exist and writeMail
\* returns
writeMailCreate(i) ==
    /\ pc = "wait"
    /\ i \in DOMAIN workers
    /\ workers[i].pc = "create"
    /\ fs' = IF DirExists(workers[i]) THEN fs \cup {workers[i].file} ELSE fs
    /\ workers' = [workers EXCEPT ![i].pc =
                      IF DirExists(workers[i]) THEN "write" ELSE "done"]
    /\ wg' = IF DirExists(workers[i]) THEN wg ELSE wg - wgDone("createError")
    /\ UNCHANGED <<ret, flagFolder, ch, cmap, chClosed, cutoff, fetching, overlap, moveVars, failed, Config, server, index, now, pc, op, dryRun, runs, todo,
                   syncVars, issued, unseen0, inbox0, prevAll>>

\* writeMail from mail.ReadMessage(r) to its return: the headers and the
\* body are written to the file, or an error of the read or of a write
\* makes writeMail return with the file as it is (ok = FALSE)
writeMailWrite(i, ok) ==
    /\ pc = "wait"
    /\ i \in DOMAIN workers
    /\ workers[i].pc = "write"
    /\ workers' = [workers EXCEPT ![i].pc = IF ok THEN "done" ELSE "torn"]
    /\ wg' = wg - wgDone(IF ok THEN "success" ELSE "torn")
    /\ UNCHANGED <<ret, flagFolder, ch, cmap, chClosed, cutoff, fetching, overlap, moveVars, failed, Config, server, fs, index, now, pc, op, dryRun, runs, todo,
                   syncVars, issued, unseen0, inbox0, prevAll>>

\* wg.Wait() returns, and with it imapSnapshot and Fetch
FetchReturn ==
    /\ pc = "wait"
    /\ wg = 0
    /\ workers' = <<>>
    /\ pc' = IF todo # {} THEN "fetch"
             ELSE IF op = "fullsync" THEN "Sync" ELSE "done"
    /\ todo' = IF todo = {} THEN Servers ELSE todo
    /\ UNCHANGED <<extVars, moveVars, failed, Config, server, fs, index, now, op, dryRun, runs, syncVars,
                   issued, unseen0, inbox0, prevAll>>

\* ----------------------------------------------------------------- Sync
\* Sync up to its first loop: the common inbox is read once
SyncBegin ==
    /\ pc = "Sync"
    /\ mdict' = IF Config.CommonInbox THEN readMaildir("", INBOX) ELSE {}
    /\ todo' = Servers
    /\ pc' = "spawn"
    /\ UNCHANGED <<extVars, moveVars, failed, Config, server, fs, index, now, op, dryRun, runs, workers,
                   spawned, mch, nrecv, snaps, mlist, cur, pos, issued,
                   unseen0, inbox0, prevAll>>

\* one round of Sync's first loop: mdict is read again for a separate
\* inbox, and the snapshot goroutine of the server is started
SyncSpawn(s) ==
    /\ pc = "spawn"
    /\ s \in todo
    /\ mdict' = IF ~Config.CommonInbox THEN readMaildir(s, INBOX) ELSE mdict
    /\ spawned' = spawned \cup {s}
    /\ todo' = todo \ {s}
    /\ pc' = IF todo = {s} THEN "collect" ELSE "spawn"
    /\ UNCHANGED <<extVars, moveVars, failed, Config, server, fs, index, now, op, dryRun, runs, workers,
                   mch, nrecv, snaps, mlist, cur, pos, issued, unseen0, inbox0,
                   prevAll>>

\* the goroutine: mch <- imapSnapshot(cl, n, "INBOX", false, false), with
\* a stream that ends after n messages
SyncSnapshot(s, n) ==
    /\ pc \in {"spawn", "collect"}
    /\ s \in spawned
    /\ LET r == imapSnapshot(s, INBOX, FALSE, FALSE, n)
       IN  /\ mch' = Append(mch, [srv |-> s, msgs |-> r.msgs])
           /\ cutoff' = IF r.err THEN cutoff \cup {s} ELSE cutoff
    /\ spawned' = spawned \ {s}
    /\ inbox0' = [inbox0 EXCEPT ![s] = server[s]]
    /\ UNCHANGED <<ret, flagFolder, wg, ch, cmap, chClosed, fetching, overlap, moveVars, failed, Config,
                   server, fs, index, now, pc, op, dryRun, runs, todo,
                   workers, mdict, nrecv, snaps, mlist, cur, pos, issued,
                   unseen0, prevAll>>

\* a diff that gives up when the maildir has a key no message of msgList has
MissingIfCovered(msgs, keys) ==
    IF \E k \in keys : \A i \in DOMAIN msgs : msgs[i].HashId # k
    THEN <<>>
    ELSE SelectSeq(msgs, LAMBDA m : m.HashId \notin keys)

\* the messages of msgList that go to mlist
Missing(msgs, keys) == SelectSeq(msgs, LAMBDA m : m.HashId \notin keys)

\* a second loop that ends with the first snapshot it receives
collectNextFirst(n) == "syncMails"

\* where main is after it has received n snapshots in Sync's second loop,
\* "for range cmap"
collectNext(n) == IF n = Cardinality(Servers) THEN "syncMails" ELSE "collect"

\* one round of Sync's second loop: msgList := <-mch
SyncCollect ==
    /\ pc = "collect"
    /\ mch # <<>>
    /\ LET msgList == Head(mch)
       IN  /\ mlist' = mlist \o Missing(msgList.msgs, mdict)
           /\ snaps' = [snaps EXCEPT ![msgList.srv] = msgList.msgs]
    /\ mch' = Tail(mch)
    /\ nrecv' = nrecv + 1
    /\ pc' = collectNext(nrecv + 1)
    /\ todo' = Servers
    /\ UNCHANGED <<extVars, moveVars, failed, Config, server, fs, index, now, op, dryRun, runs, workers,
                   mdict, spawned, cur, pos, issued, unseen0, inbox0, prevAll>>

\* ------------------------------------------------------------ syncMails
\* an inner loop that takes every message of mlist, whatever its server
NextPosAny(s, from) == from

\* the next position of mlist at or after from whose message is of server s
RECURSIVE NextPos(_, _)
NextPos(s, from) ==
    IF from > Len(mlist) \/ mlist[from].Imap = s THEN from
    ELSE NextPos(s, from + 1)

\* the outer loop of syncMails takes the next server of cmap
syncMailsRange(s) ==
    /\ pc = "syncMails"
    /\ cur = Nil
    /\ s \in todo
    /\ cur' = s
    /\ pos' = NextPos(s, 1)
    /\ todo' = todo \ {s}
    /\ UNCHANGED <<extVars, moveVars, failed, Config, server, fs, index, now, pc, op, dryRun, runs,
                   workers, mdict, spawned, mch, nrecv, snaps, mlist, issued,
                   unseen0, inbox0, prevAll>>

\* a MoveMessage that copies the message after it has expunged it
MoveCommandsExpungeFirst(folder) ==
    <<"select", "storeSeen", "storeDeleted", "expunge">>
        \o (IF folder # "" THEN <<"copy">> ELSE <<>>)

\* the commands MoveMessage issues for folder, in the order of the code
MoveCommands(folder) ==
    <<"select", "storeSeen">> \o (IF folder # "" THEN <<"copy">> ELSE <<>>)
        \o <<"storeDeleted", "expunge">>

\* the points of MoveMessage at which a command can return an error
FailPoints == {"none", "select", "storeSeen", "copy", "storeDeleted", "expunge"}

\* an error check that logs the error and goes on
logFatalIgnored(err) == FALSE

\* if err != nil { log.Fatal(err) }: whether the process ends
logFatal(err) == err

\* what a command that succeeds does to box = [inbox, dst]; a sequence
\* number the mailbox does not have changes nothing
Command(box, cmd, seq) ==
    CASE cmd = "storeSeen" -> [box EXCEPT !.inbox = Store(@, seq, SeenFlag)]
      [] cmd = "copy" ->
            IF seq \in DOMAIN box.inbox
            THEN [box EXCEPT !.dst = Append(@, box.inbox[seq])] ELSE box
      [] cmd = "storeDeleted" ->
            [box EXCEPT !.inbox = Store(@, seq, DeletedFlag)]
      [] cmd = "expunge" -> [box EXCEPT !.inbox = Expunge(@)]
      [] OTHER -> box

\* the commands cmds run one after the other; the command named fail
\* returns an error
RECURSIVE RunCommands(_, _, _, _, _)
RunCommands(box, cmds, seq, fail, log) ==
    IF cmds = <<>>
    THEN [inbox |-> box.inbox, dst |-> box.dst, cmds |-> log, fatal |-> FALSE]
    ELSE IF Head(cmds) # fail
    THEN RunCommands(Command(box, Head(cmds), seq), Tail(cmds), seq, fail,
                     Append(log, [cmd |-> Head(cmds), ok |-> TRUE]))
    ELSE IF logFatal(TRUE)
    THEN [inbox |-> box.inbox, dst |-> box.dst,
          cmds |-> Append(log, [cmd |-> Head(cmds), ok |-> FALSE]),
          fatal |-> TRUE]
    ELSE RunCommands(box, Tail(cmds), seq, fail,
                     Append(log, [cmd |-> Head(cmds), ok |-> FALSE]))

\* MoveMessage(c, imapName, msg, folderName) on a server whose INBOX is
\* inbox and whose folder folderName is dst: the two mailboxes it leaves,
\* the commands it issued and whether it ended in log.Fatal
MoveMessage(inbox, dst, msg, folder, fail) ==
    RunCommands([inbox |-> inbox, dst |-> dst], MoveCommands(folder),
                msg.SeqNumber, fail, <<>>)

\* a STORE on a sequence number the mailbox does not have either returns
\* an error (accept = FALSE) or changes nothing
StoreOutcome(inbox, m, accept) ==
    IF m.SeqNumber \in DOMAIN inbox \/ accept THEN "none" ELSE "storeSeen"

\* an inner loop of syncMails that moves the message whatever dryRun says
syncMailsBodyNoDry(inbox, m, dry, accept) ==
    MoveMessage(inbox, <<>>, m, "", StoreOutcome(inbox, m, accept))

\* what the body of the inner loop of syncMails does with message m
syncMailsBody(inbox, m, dry, accept) ==
    IF ~dry THEN MoveMessage(inbox, <<>>, m, "", StoreOutcome(inbox, m, accept))
    ELSE [inbox |-> inbox, dst |-> <<>>, cmds |-> <<>>, fatal |-> FALSE]

\* the store, copy and expunge commands among cmds, as issued on srv
Mutations(srv, cmds) ==
    {[srv |-> srv, cmd |-> c.cmd] : c \in {x \in Range(cmds) : x.cmd # "select"}}

\* one round of the inner loop of syncMails for a message of server cur
syncMailsMove(accept) ==
    /\ pc = "syncMails"
    /\ cur # Nil
    /\ pos <= Len(mlist)
    /\ LET r == syncMailsBody(server[cur], mlist[pos], dryRun, accept)
       IN  /\ server' = [server EXCEPT ![cur] = r.inbox]
           /\ issued' = issued \cup Mutations(cur, r.cmds)
           /\ pc' = IF r.fatal THEN "aborted" ELSE pc
    /\ pos' = NextPos(cur, pos + 1)
    /\ UNCHANGED <<extVars, moveVars, failed, Config, fs, index, now, op, dryRun, runs, todo, workers,
                   mdict, spawned, mch, nrecv, snaps, mlist, cur, unseen0, inbox0,
                   prevAll>>

\* the inner loop ends; after the last server syncMails and Sync return
syncMailsEnd ==
    /\ pc = "syncMails"
    /\ cur # Nil
    /\ pos > Len(mlist)
    /\ cur' = Nil
    /\ pc' = IF todo = {} THEN "done" ELSE pc
    /\ UNCHANGED <<extVars, moveVars, failed, Config, server, fs, index, now, op, dryRun, runs, todo,
                   workers, mdict, spawned, mch, nrecv, snaps, mlist, pos,
                   issued, unseen0, inbox0, prevAll>>

\* the process ends: main returns, or log.Fatal has ended it
Exit ==
    /\ pc \in {"done", "aborted"}
    /\ pc' = "idle"
    /\ prevAll' = IF pc = "done" /\ op = "fetch-all" /\ failed = {}
                  THEN [valid |-> TRUE, fs |-> fs] ELSE NoPrev
    /\ failed' = {}
    /\ op' = "sync"
    /\ dryRun' = FALSE
    /\ todo' = {}
    /\ workers' = <<>>
    /\ mdict' = {}
    /\ spawned' = {}
    /\ mch' = <<>>
    /\ nrecv' = 0
    /\ snaps' = NoSnaps
    /\ mlist' = <<>>
    /\ cur' = Nil
    /\ pos' = 1
    /\ issued' = {}
    /\ unseen0' = NoUnseen
    /\ inbox0' = NoSnaps
    /\ cutoff' = {}
    /\ UNCHANGED <<ret, flagFolder, wg, ch, cmap, chClosed, fetching, overlap, moveVars, Config, server,
                   fs, index, now, runs>>

\* ----------------------------------------------------------- imapFolder
\* a look-up that compares the names as they are
FirstMatchExact(folders, folder) ==
    IF folder \in Range(folders) THEN <<folder>> ELSE <<>>

\* the first folder of folders whose lower case is that of folder, if any
RECURSIVE FirstMatch(_, _)
FirstMatch(folders, folder) ==
    IF folders = <<>> THEN <<>>
    ELSE IF ToLower(Head(folders)) = ToLower(folder) THEN <<Head(folders)>>
    ELSE FirstMatch(Tail(folders), folder)

\* imapFolder(imapName, folder): the name it returns, or that it ended in
\* log.Fatalf
imapFolder(imapName, folder) ==
    LET hit == FirstMatch(imapFolders[imapName], folder)
    IN  IF folder = "" THEN [name |-> folder, fatal |-> FALSE]
        ELSE IF hit # <<>> THEN [name |-> hit[1], fatal |-> FALSE]
        ELSE IF ToLower(folder) = "inbox"
        THEN [name |-> "INBOX", fatal |-> FALSE]
        ELSE IF ToLower(folder) = "spam"
        THEN [name |-> "Spam", fatal |-> FALSE]
        ELSE [name |-> "", fatal |-> TRUE]

\* ------------------------------------------------- connect, logout, Move
\* main is started with -op=move
StartMove(folder, mid) ==
    /\ pc = "idle"
    /\ runs < MaxRuns
    /\ runs' = runs + 1
    /\ op' = "move"
    /\ mvto' = folder
    /\ match' = mid
    /\ mvlog' = <<>>
    /\ pc' = "connect"
    /\ UNCHANGED <<extVars, Config, server, fs, index, now, dryRun, todo, workers,
                   syncVars, issued, unseen0, inbox0, prevAll, failed, sess,
                   imapFolders, dest>>

\* a connect that goes on without the server whose dial or login failed
dialReturnPartial(ok) == "connect"

\* where main is after a goroutine of connect has dialed and logged in:
\* an error ends the process in log.Fatal
dialReturn(ok) == IF ok THEN "connect" ELSE "fatal"

\* the capacity of ch: make(chan ServerClient, len(Config.Servers))
chCap == Cardinality(Servers)

\* a connect whose loop stops one client short
connectExpectsFewer == Cardinality(Servers) - 1

\* the number of clients the loop of connect receives from ch
connectExpects == Cardinality(Servers)

\* a goroutine of connect: Dial or DialTLS, then Login, then the send of
\* the client on ch, which needs room in the buffer of ch
connectDial(s, ok) ==
    /\ pc = "connect"
    /\ sess[s] = "none"
    /\ ok => Len(ch) < chCap
    /\ sess' = [sess EXCEPT ![s] = IF ok THEN "open" ELSE "failed"]
    /\ ch' = IF ok THEN Append(ch, s) ELSE ch
    /\ pc' = dialReturn(ok)
    /\ UNCHANGED <<ret, flagFolder, wg, cmap, chClosed, cutoff, fetching, overlap, Config, server, fs, index, now, op, dryRun, runs, todo,
                   workers, syncVars, issued, unseen0, inbox0, prevAll, failed,
                   imapFolders, mvto, match, dest, mvlog>>

\* one round of the loop of connect: s := <-ch; cmap[s.Name] = s.Client
connectRecv ==
    /\ pc = "connect"
    /\ Cardinality(cmap) < connectExpects
    /\ ch # <<>>
    /\ cmap' = cmap \cup {Head(ch)}
    /\ ch' = Tail(ch)
    /\ UNCHANGED <<ret, flagFolder, wg, chClosed, cutoff, fetching, overlap,
                   Config, server, fs, index, now, pc, op, dryRun, runs, todo,
                   workers, syncVars, issued, unseen0, inbox0, prevAll, failed,
                   moveVars>>

\* connect has received len(Config.Servers) clients from ch and returns
\* cmap; its deferred close(ch) runs; main will range over cmap
connectReturn ==
    /\ pc = "connect"
    /\ Cardinality(cmap) = connectExpects
    /\ chClosed' = TRUE
    /\ pc' = "folders"
    /\ todo' = cmap
    /\ UNCHANGED <<ret, flagFolder, wg, ch, cmap, cutoff, fetching, overlap, Config, server, fs, index, now, op, dryRun, runs, workers,
                   syncVars, issued, unseen0, inbox0, prevAll, failed, moveVars>>

\* one round of main's loop over cmap: getImapFolders lists the folders
getImapFolders(s, folders, ok) ==
    /\ pc = "folders"
    /\ s \in todo
    /\ imapFolders' = IF ok THEN [imapFolders EXCEPT ![s] = folders]
                      ELSE imapFolders
    /\ todo' = todo \ {s}
    /\ pc' = IF ~ok THEN "fatal"
             ELSE IF todo = {s} THEN "dispatch" ELSE "folders"
    /\ UNCHANGED <<extVars, Config, server, fs, index, now, op, dryRun, runs, workers,
                   syncVars, issued, unseen0, inbox0, prevAll, failed, sess,
                   mvto, match, dest, mvlog>>

\* main dispatches on op = "move": both -folder and -mid are required
mainMove ==
    /\ pc = "dispatch"
    /\ pc' = IF mvto # "" /\ match # "" THEN "move" ELSE "fatal"
    /\ todo' = Servers
    /\ UNCHANGED <<extVars, Config, server, fs, index, now, op, dryRun, runs, workers,
                   syncVars, issued, unseen0, inbox0, prevAll, failed, moveVars>>

\* the position in inbox at which the loop of Move stops: the first
\* message without an envelope or with Message-ID mid; 0 if there is none
RECURSIVE FirstStop(_, _, _)
FirstStop(inbox, mid, i) ==
    IF i > Len(inbox) THEN 0
    ELSE IF ~inbox[i].env \/ inbox[i].mid = mid THEN i
    ELSE FirstStop(inbox, mid, i + 1)

\* the messages of inbox that c.Fetch sends to channel messages when the
\* stream ends after n messages
Stream(inbox, n) == SubSeq(inbox, 1, IF n < Len(inbox) THEN n ELSE Len(inbox))

\* the commands cmds as issued on session srv
IssuedOn(srv, cmds) == {[srv |-> srv, cmd |-> cmds[k].cmd] : k \in DOMAIN cmds}

\* Move(c, imapName, match, folderName) on server s; fail names the
\* command that returns an error, n is the number of messages after
\* which the stream of c.Fetch ends, and ended says whether c.Fetch has
\* returned when the loop leaves the stream at a message: if not, it
\* returns after Move has
Move(s, fail, n, ended) ==
    /\ pc = "move"
    /\ s \in todo
    /\ todo' = todo \ {s}
    /\ LET inboxFolder == imapFolder(s, "inbox")
           folder == imapFolder(s, mvto)
           i == FirstStop(Stream(server[s], n), match, 1)
           after == IF todo = {s} THEN "logout" ELSE "move"
       IN  IF inboxFolder.fatal \/ folder.fatal
           THEN /\ pc' = "fatal"
                /\ UNCHANGED <<server, dest, mvlog, cutoff, fetching, overlap>>
           ELSE IF fail = "selectInbox"
           THEN /\ pc' = IF logFatal(TRUE) THEN "fatal" ELSE after
                /\ mvlog' = Append(mvlog, [srv |-> s, cmd |-> "select",
                                           ok |-> FALSE])
                /\ UNCHANGED <<server, dest, cutoff, fetching, overlap>>
           ELSE IF i = 0
           THEN /\ pc' = after
                /\ mvlog' = Append(mvlog, [srv |-> s, cmd |-> "select",
                                           ok |-> TRUE])
                /\ cutoff' = IF n < Len(server[s]) THEN cutoff \cup {s}
                             ELSE cutoff
                /\ UNCHANGED <<server, dest, fetching, overlap>>
           ELSE IF ~server[s][i].env
           THEN /\ pc' = "panic"
                /\ mvlog' = Append(mvlog, [srv |-> s, cmd |-> "select",
                                           ok |-> TRUE])
                /\ fetching' = IF ended THEN fetching ELSE fetching \cup {s}
                /\ UNCHANGED <<server, dest, cutoff, overlap>>
           ELSE LET msg == server[s][i]
                    m == [MessageId |-> msg.mid, Flags |-> msg.flags,
                          Imap |-> s, SeqNumber |-> i,
                          HashId |-> md5hash(msg.mid)]
                    r == MoveMessage(server[s], dest[s], m, folder.name, fail)
                IN  /\ pc' = IF r.fatal THEN "fatal" ELSE after
                    /\ server' = [server EXCEPT ![s] = r.inbox]
                    /\ dest' = [dest EXCEPT ![s] = r.dst]
                    /\ mvlog' = mvlog
                          \o <<[srv |-> s, cmd |-> "select", ok |-> TRUE]>>
                          \o [k \in DOMAIN r.cmds |->
                                [srv |-> s, cmd |-> r.cmds[k].cmd,
                                 ok |-> r.cmds[k].ok]]
                    /\ fetching' = IF ended THEN fetching
                                   ELSE fetching \cup {s}
                    /\ overlap' = IF ended THEN overlap
                                  ELSE overlap \cup IssuedOn(s, r.cmds)
                    /\ UNCHANGED cutoff
    /\ UNCHANGED <<ret, flagFolder, wg, ch, cmap, chClosed, Config, fs, index, now, op, dryRun, runs,
                   workers, syncVars, issued, unseen0, inbox0, prevAll, failed,
                   sess, imapFolders, mvto, match>>

\* the goroutine of Move: c.Fetch returns and its error goes to done
MoveFetchDone(s) ==
    /\ pc \in {"move", "logout", "panic"}
    /\ s \in fetching
    /\ fetching' = fetching \ {s}
    /\ UNCHANGED <<ret, flagFolder, wg, ch, cmap, chClosed, cutoff, overlap, Config, server, fs, index,
                   now, pc, op, dryRun, runs, todo, workers, syncVars, issued,
                   unseen0, inbox0, prevAll, failed, moveVars>>

\* the deferred logout(cmap), run when main returns or panics
logout(s) ==
    /\ pc \in {"logout", "panic"}
    /\ s \in cmap
    /\ sess[s] = "open"
    /\ sess' = [sess EXCEPT ![s] = "out"]
    /\ overlap' = IF s \in fetching
                  THEN overlap \cup {[srv |-> s, cmd |-> "logout"]}
                  ELSE overlap
    /\ UNCHANGED <<ret, flagFolder, wg, ch, cmap, chClosed, cutoff, fetching, Config, server, fs, index, now, pc, op, dryRun, runs, todo,
                   workers, syncVars, issued, unseen0, inbox0, prevAll, failed,
                   imapFolders, mvto, match, dest, mvlog>>

\* the process has ended: after the deferred logout, or in log.Fatal,
\* whose os.Exit runs no deferred call
ExitMove ==
    /\ \/ pc = "fatal"
       \/ pc \in {"logout", "panic"} /\ \A s \in Servers : sess[s] # "open"
    /\ pc' = "idle"
    /\ op' = "sync"
    /\ todo' = {}
    /\ sess' = NoSessions
    /\ imapFolders' = NoFolders
    /\ mvto' = ""
    /\ match' = ""
    /\ mvlog' = <<>>
    /\ cutoff' = {}
    /\ fetching' = {}
    /\ ch' = <<>>
    /\ cmap' = {}
    /\ chClosed' = FALSE
    /\ overlap' = {}
    /\ UNCHANGED <<ret, flagFolder, wg, Config, server, fs, index, now, dryRun, runs,
                   workers, syncVars, issued, unseen0, inbox0, prevAll, failed,
                   dest>>

\* ----------------------------------------------------------------- Next
\* what happens between two runs; mids are the Message-IDs that arrive
Environment(mids) ==
    \/ \E s \in Servers : \E msg \in DeliverableTo(s) :
            msg.mid \in mids /\ Deliver(s, msg)
    \/ \E f \in fs : LocalDelete(f)

\* a stream of c.Fetch that delivers every message of the sequence set
Whole == MaxInbox

\* the steps of a fetch in which Select has the outcomes selects, the
\* writes of writeMail the outcomes writes and the streams of c.Fetch the
\* lengths streams
FetchSteps(selects, writes, streams) ==
    \/ \E s \in Servers, selectOk \in selects, n \in streams :
            Fetch(s, selectOk, n)
    \/ \E i \in 1..MaxInbox : writeMailStat(i)
    \/ \E i \in 1..MaxInbox : writeMailCreate(i)
    \/ \E i \in 1..MaxInbox, ok \in writes : writeMailWrite(i, ok)
    \/ FetchReturn

SyncSteps(streams) ==
    \/ SyncBegin
    \/ \E s \in Servers : SyncSpawn(s)
    \/ \E s \in Servers, n \in streams : SyncSnapshot(s, n)
    \/ SyncCollect
    \/ \E s \in Servers : syncMailsRange(s)
    \/ \E accept \in BOOLEAN : syncMailsMove(accept)
    \/ syncMailsEnd

\* runs of -op=sync and -op=fullsync
Next ==
    \/ Environment(MsgIds \ {""})
    \/ \E m \in IndexMessages : insertMessage(m)
    \/ \E m \in IndexMessages : deleteMessage(m.HashId)
    \/ \E o \in {"sync", "fullsync"}, d \in BOOLEAN : Start(o, d)
    \/ FetchSteps({TRUE}, {TRUE}, {Whole})
    \/ SyncSteps({Whole})
    \/ Exit

Spec == Init /\ [][Next]_vars

\* runs of -op=fetch-new and -op=fetch-all
NextFetch ==
    \/ Environment(MsgIds)
    \/ Tick
    \/ \E o \in {"fetch-new", "fetch-all"} : Start(o, FALSE)
    \/ FetchSteps({TRUE}, BOOLEAN, {Whole})
    \/ Exit

SpecFetch == Init /\ [][NextFetch]_vars

\* runs of -op=fetch-new and -op=fetch-all on sessions whose Select can
\* fail, with a maildir "/mail" that only the program changes
InitSelect == Init /\ Config.Maildir = <<"/mail">>

NextSelect ==
    \/ \E s \in Servers : \E msg \in DeliverableTo(s) : Deliver(s, msg)
    \/ \E o \in {"fetch-new", "fetch-all"} : Start(o, FALSE)
    \/ FetchSteps(BOOLEAN, {TRUE}, {Whole})
    \/ Exit

SpecSelect == InitSelect /\ [][NextSelect]_vars

\* runs of -op=move, which reads neither Config.Maildir nor
\* Config.CommonInbox
InitMove == Init /\ Config = [Maildir |-> <<"/mail">>, CommonInbox |-> FALSE]

\* the steps of a move in which the dials, logins and lists have the
\* outcomes oks, the commands of Move fail at the points fails, the
\* streams of c.Fetch have the lengths streams and c.Fetch has returned
\* or not, ends, when the loop of Move leaves the stream
MoveSteps(oks, fails, streams, ends) ==
    \/ \E folder \in MoveTargets, mid \in Matches : StartMove(folder, mid)
    \/ \E s \in Servers, ok \in oks : connectDial(s, ok)
    \/ connectRecv
    \/ connectReturn
    \/ \E s \in Servers, folders \in FolderLists, ok \in oks :
            getImapFolders(s, folders, ok)
    \/ mainMove
    \/ \E s \in Servers, fail \in fails, n \in streams, ended \in ends :
            Move(s, fail, n, ended)
    \/ \E s \in Servers : logout(s)
    \/ ExitMove

NextMove ==
    \/ \E s \in Servers : \E msg \in DeliverableTo(s) : Deliver(s, msg)
    \/ MoveSteps(BOOLEAN, FailPoints \cup {"selectInbox"}, {Whole}, {TRUE})

SpecMove == InitMove /\ [][NextMove]_vars

\* runs of -op=move without an error of a command, on sessions whose
\* streamed fetch can end in an error and can outlast the loop of Move
NextOverlap ==
    \/ \E s \in Servers : \E msg \in DeliverableTo(s) : Deliver(s, msg)
    \/ MoveSteps({TRUE}, {"none"}, 0..Whole, BOOLEAN)
    \/ \E s \in Servers : MoveFetchDone(s)

SpecOverlap == InitMove /\ [][NextOverlap]_vars

\* the messages of a mailbox of which some were marked \\Deleted by
\* another client and not expunged yet
Marked == {msg \in Flagged : msg.flags \in {<<>>, <<DeletedFlag>>}}

\* runs of -op=move without an error of a command on mailboxes that hold
\* such messages
NextExpunge ==
    \/ \E s \in Servers : \E msg \in Marked : Deliver(s, msg)
    \/ MoveSteps({TRUE}, {"none"}, {Whole}, {TRUE})

SpecExpunge == InitMove /\ [][NextExpunge]_vars

\* runs of -op=fetch-new and -op=fetch-all on a server whose messages
\* carry flags
InitFlags == Init /\ Config = [Maildir |-> <<"/mail">>, CommonInbox |-> FALSE]

NextFlags ==
    \/ \E msg \in Flagged : Deliver("A", msg)
    \/ \E o \in {"fetch-new", "fetch-all"} : Start(o, FALSE)
    \/ FetchSteps({TRUE}, {TRUE}, {Whole})
    \/ Exit

SpecFlags == InitFlags /\ [][NextFlags]_vars

\* runs of -op=fetch-new and -op=fetch-all with a flag -folder that can
\* name a folder of a hierarchy
InitFolder ==
    /\ Config = [Maildir |-> <<"/mail">>, CommonInbox |-> FALSE]
    /\ flagFolder \in FetchFolders
    /\ InitState

NextFolder ==
    \/ \E s \in Servers : \E msg \in DeliverableTo(s) :
            msg.mid # "" /\ Deliver(s, msg)
    \/ \E o \in {"fetch-new", "fetch-all"} : Start(o, FALSE)
    \/ FetchSteps({TRUE}, {TRUE}, {Whole})
    \/ Exit

SpecFolder == InitFolder /\ [][NextFolder]_vars

\* the same runs with writes of writeMail that can fail: every return of
\* writeMail is taken
NextWrite ==
    \/ \E s \in Servers : \E msg \in DeliverableTo(s) :
            msg.mid # "" /\ Deliver(s, msg)
    \/ \E o \in {"fetch-new", "fetch-all"} : Start(o, FALSE)
    \/ FetchSteps({TRUE}, BOOLEAN, {Whole})
    \/ Exit

SpecWrite == InitFolder /\ [][NextWrite]_vars

\* runs of -op=fetch-all and -op=sync on sessions whose streamed fetch can
\* end in an error after any number of messages
InitStream == Init /\ Config = [Maildir |-> <<"/mail">>, CommonInbox |-> FALSE]

NextStream ==
    \/ \E s \in Servers : \E msg \in DeliverableTo(s) :
            msg.mid # "" /\ Deliver(s, msg)
    \/ \E o \in {"fetch-all", "sync"} : Start(o, FALSE)
    \/ FetchSteps({TRUE}, {TRUE}, 0..Whole)
    \/ SyncSteps(0..Whole)
    \/ Exit

SpecStream == InitStream /\ [][NextStream]_vars

\* runs of -op=sync on a maildir without files; a goroutine that can
\* take a step takes it, and so does main when mch holds a snapshot
InitSync == Init /\ Config = [Maildir |-> <<"/mail">>, CommonInbox |-> FALSE]

NextSync ==
    \/ \E s \in Servers : \E msg \in DeliverableTo(s) :
            msg.mid # "" /\ Deliver(s, msg)
    \/ \E d \in BOOLEAN : Start("sync", d)
    \/ SyncSteps({Whole})
    \/ Exit

SpecSync ==
    /\ InitSync
    /\ [][NextSync]_vars
    /\ WF_vars(\E s \in Servers : SyncSnapshot(s, Whole))
    /\ WF_vars(SyncCollect)

\* calls of the DB module
InitIndex == Init /\ Config = [Maildir |-> <<"/mail">>, CommonInbox |-> FALSE]

NextIndex ==
    \/ \E m \in IndexRows, fail \in DbFails, rollbackOk \in BOOLEAN :
            callInsert(m, fail, rollbackOk)
    \/ \E m \in IndexRows, fail \in DbFails, rollbackOk \in BOOLEAN :
            callDelete(m.HashId, fail, rollbackOk)
    \/ \E m \in IndexRows, fail \in DbFails, rollbackOk \in BOOLEAN :
            callFind(m.HashId, fail, rollbackOk)

SpecIndex == InitIndex /\ [][NextIndex]_vars

\* --------------------------------------------------------------- properties
\* the maildir folder of server s holds a file whose name carries hid
HasFile(s, hid) ==
    \E f \in fs : f.fdir = localFolder(s, INBOX) /\ f.name[2] = hid

\* message m of a snapshot of s is in the delete set
InDeleteSet(s, m) ==
    \E k \in Range(mlist) : k.Imap = s /\ k.HashId = m.HashId

\* Sync has computed its delete set
DeleteSetComputed == pc \in {"syncMails", "done"}

\* a full snapshot of the INBOX of s
FullSnapshot(s) == imapSnapshot(s, INBOX, FALSE, FALSE, Whole).msgs

\* C1: every message of Sync's delete set has a row in the index and no
\* file in the maildir folder of its server, so a message that was never
\* fetched is not expunged.
C1_DeleteSetIndexedAndAbsent ==
    \A m \in Range(mlist) : findMessage(m.HashId) /\ ~HasFile(m.Imap, m.HashId)

\* C2: Sync soundness. When a Sync that is no dry run has returned, no
\* fingerprint of its delete set is in a full snapshot of its server's INBOX
\* any more, and none has a row in the index.
C2_SyncSoundness ==
    (pc = "done" /\ ~dryRun) =>
        \A m \in Range(mlist) :
            /\ \A k \in Range(FullSnapshot(m.Imap)) : k.HashId # m.HashId
            /\ ~findMessage(m.HashId)

\* message msg of the INBOX of s is a delete candidate
IsCandidate(s, msg) ==
    msg.env /\ \E k \in Range(mlist) : k.Imap = s /\ k.MessageId = msg.mid

\* C3: when a Sync that is no dry run has returned, every message that was
\* in a server's INBOX at the snapshot and is no delete candidate is still
\* in that INBOX: only the delete set has been removed.
C3_OnlyDeleteSetRemoved ==
    (pc = "done" /\ ~dryRun) =>
        \A s \in Servers : \A i \in DOMAIN inbox0[s] :
            ~IsCandidate(s, inbox0[s][i]) =>
                \E j \in DOMAIN server[s] : server[s][j] = inbox0[s][i]

\* C4: Sync completeness. In a Sync that is no dry run, every message of a
\* server's snapshot that has an index row and is absent from the presence
\* map of that server's maildir folder is in the delete set.
C4_SyncCompleteness ==
    (DeleteSetComputed /\ ~dryRun) =>
        \A s \in Servers : \A m \in Range(snaps[s]) :
            (findMessage(m.HashId) /\ m.HashId \notin readMaildir(s, INBOX))
                => InDeleteSet(s, m)

\* C5: Sync diffs the snapshot of each server against the presence map of
\* that server's own folder when the inboxes are separate, and against the
\* one map of <root>/INBOX when the inbox is common.
C5_OwnPresenceMap ==
    DeleteSetComputed =>
        \A s \in Servers : \A m \in Range(snaps[s]) :
            InDeleteSet(s, m) <=>
                m.HashId \notin
                    readMaildir(IF Config.CommonInbox THEN "" ELSE s, INBOX)

\* main is inside Sync
InSync == pc \in {"Sync", "spawn", "collect", "syncMails"}

\* C6: a step of Sync in dry-run mode issues no store, copy or expunge,
\* leaves every server mailbox as it is and deletes no index row.
C6_DryRunOnlyLogs ==
    [][(dryRun /\ InSync) =>
            (issued' = {} /\ server' = server /\ index' = index)]_vars

\* a dry run of Sync has come to its end with a delete plan of two messages
C6_Witness == pc = "done" /\ dryRun /\ Len(mlist) = 2

\* C7: when the sync operation has computed its delete set, every message
\* that was unseen on a server when the operation started has a file in the
\* maildir folder of that server.
C7_FetchBeforeSnapshot ==
    DeleteSetComputed =>
        \A s \in Servers : \A mid \in unseen0[s] : HasFile(s, md5hash(mid))

\* C8: write idempotence. When a fetch-all has run to its end and neither
\* the servers nor the maildir were touched since the fetch-all before it,
\* the maildir holds the files that the first fetch-all left.
C8_WriteIdempotence ==
    (pc = "done" /\ op = "fetch-all" /\ prevAll.valid /\ failed = {})
        => fs = prevAll.fs

\* C9: no two files of one maildir folder carry the same fingerprint.
C9_OneFilePerFingerprint ==
    \A f, g \in fs : (f.fdir = g.fdir /\ f.name[2] = g.name[2]) => f = g

\* C10: no file and no index row exists for the empty Message-ID.
C10_EmptyMessageIdDropped ==
    /\ \A f \in fs : f.name[2] # md5hash("")
    /\ ~findMessage(md5hash(""))

\* a path kept as dot-free pieces, as the string it stands for
RECURSIVE PathString(_)
PathString(pieces) ==
    IF Len(pieces) = 1 THEN pieces[1]
    ELSE pieces[1] \o "." \o PathString(Tail(pieces))

\* C11: after a fetch run that ended without an error, every file of the
\* maildir has an index row with its fingerprint whose path is the file.
C11_MaildirIndexConsistency ==
    (pc = "done" /\ op \in {"fetch-new", "fetch-all"} /\ failed = {}) =>
        \A f \in fs : \E r \in index :
            r.HashId = f.name[2] /\ r.Path = PathString(FilePath(f))

\* a writeMail goroutine has created file f and not written all of it
Incomplete(f) ==
    \E i \in DOMAIN workers :
        workers[i].pc \in {"write", "torn"} /\ workers[i].file = f

\* C12: no file that is visible at its target path in cur/ or new/ is
\* empty or truncated, at any point of a write and after a failure in it.
C12_CrashVisibleOrInvisible == \A f \in fs : ~Incomplete(f)

\* C13: a MoveMessage with an empty destination folder, which is what Sync
\* calls, issues neither the store of Seen nor the copy: only the store of
\* Deleted and the expunge follow the select.
C13_DeleteOnlySkipsSeenAndCopy ==
    (op \in {"sync", "fullsync"}) =>
        \A c \in issued : c.cmd \notin {"storeSeen", "copy"}

\* C14: a command of a move that returns an error is the last command the
\* process issues: it ends in log.Fatal and no store, copy or expunge
\* follows on any session.
C14_MoveErrorAborts ==
    \A i \in DOMAIN mvlog :
        ~mvlog[i].ok => (i = Len(mvlog) /\ pc = "fatal")

\* a copy has failed while another server still holds a message to move
C14_Witness ==
    /\ pc = "fatal"
    /\ mvlog # <<>>
    /\ Last(mvlog).cmd = "copy"
    /\ ~Last(mvlog).ok
    /\ \E s \in todo : FirstStop(server[s], match, 1) > 0

\* C15: when the dial or the login of a server fails the process ends
\* without a command issued on any session, and main goes on after
\* connect only with a session for every configured server.
C15_ConnectAllOrAbort ==
    /\ (\E s \in Servers : sess[s] = "failed") =>
            (pc = "fatal" /\ mvlog = <<>>)
    /\ pc \in {"folders", "dispatch", "move"} =>
            \A s \in Servers : sess[s] = "open"

\* one server is logged in, the login of the other has failed
C15_Witness ==
    /\ pc = "fatal"
    /\ \E s, t \in Servers : sess[s] = "open" /\ sess[t] = "failed"

\* C16: when the process has ended in a fatal error of a phase after
\* connect, logout was attempted on every session that was opened.
C16_LogoutOnEveryShutdown ==
    (pc = "fatal" /\ \A s \in Servers : sess[s] \in {"open", "out"}) =>
        \A s \in Servers : sess[s] # "open"

\* folder names imapFolder is asked for
FolderInputs ==
    MoveTargets \cup {"inbox", "Inbox", "INBOX", "SPAM", "Spam", "work"}

\* what imapFolder is to return for folder on a server that lists folders
Canonical(folders, folder) ==
    LET hits == {i \in DOMAIN folders : ToLower(folders[i]) = ToLower(folder)}
        first == CHOOSE i \in hits : \A j \in hits : i <= j
    IN  IF folder = "" THEN [name |-> "", fatal |-> FALSE]
        ELSE IF hits # {} THEN [name |-> folders[first], fatal |-> FALSE]
        ELSE IF ToLower(folder) = "inbox"
        THEN [name |-> "INBOX", fatal |-> FALSE]
        ELSE IF ToLower(folder) = "spam"
        THEN [name |-> "Spam", fatal |-> FALSE]
        ELSE [name |-> "", fatal |-> TRUE]

\* C17: imapFolder returns the first folder of the server's list that
\* equals the input up to case, in the server's case; else INBOX for any
\* case of inbox and Spam for any case of spam; else the process ends; an
\* empty input is returned as it is.
C17_FolderCanonicalization ==
    \A s \in Servers : \A folder \in FolderInputs :
        imapFolder(s, folder) = Canonical(imapFolders[s], folder)

\* a message was moved to the folder the server spells SPAM for -folder spam
C17_Witness ==
    /\ pc = "logout"
    /\ mvto = "spam"
    /\ \E s \in Servers :
           /\ imapFolder(s, mvto).name = "SPAM"
           /\ \E i \in DOMAIN mvlog :
                  mvlog[i] = [srv |-> s, cmd |-> "copy", ok |-> TRUE]

\* C18: the local folder is the folder itself for an empty origin and for
\* an inbox that is common, and origin/folder otherwise; with separate
\* inboxes two servers never write to one INBOX directory.
C18_LocalFolder ==
    /\ \A origin \in Servers \cup {""} : \A folder \in FolderInputs :
           localFolder(origin, folder) =
               IF origin = "" \/ (ToLower(folder) = "inbox" /\ Config.CommonInbox)
               THEN folder ELSE origin \o "/" \o folder
    /\ \A i \in DOMAIN workers :
           workers[i].file # NoFile =>
               workers[i].file.fdir =
                   IF Config.CommonInbox THEN INBOX
                   ELSE workers[i].imapName \o "/" \o INBOX
    /\ ~Config.CommonInbox =>
           \A s, t \in Servers :
               s # t => localFolder(s, INBOX) # localFolder(t, INBOX)

\* with separate inboxes each of two servers has a file in its own folder
C18_Witness ==
    /\ ~Config.CommonInbox
    /\ \E f, g \in fs : f.fdir = "A/INBOX" /\ g.fdir = "B/INBOX"

\* C19: the step in which the Select of a server fails writes no file,
\* inserts no index row, starts no writeMail and leaves main in the fetch.
C19_SelectErrorNonFatal ==
    [][\A s \in Servers :
          (s \in failed' /\ s \notin failed) =>
              /\ fs' = fs
              /\ index' = index
              /\ server' = server
              /\ workers' = <<>>
              /\ pc' = "wait"]_vars

\* after the Select of A failed, the fetch of B writes a mail
C19_Witness ==
    /\ pc = "wait"
    /\ "A" \in failed
    /\ \E i \in DOMAIN workers :
           workers[i].imapName = "B" /\ workers[i].file \in fs

\* the files whose fingerprint no server held when Sync took its snapshots
StrayFiles ==
    {f \in fs : \A s \in Servers : \A i \in DOMAIN inbox0[s] :
                    md5hash(inbox0[s][i].mid) # f.name[2]}

\* the keys of mdict that come from stray files only
StrayOnlyKeys ==
    {k \in mdict : \A f \in fs : FilePath(f)[2] = k => f \in StrayFiles}

\* the messages of all snapshots
Observed == UNION {Range(snaps[s]) : s \in Servers}

\* C20: no step of a run adds a message to a server, and the delete set
\* Sync computes is the one it would compute without the files whose
\* fingerprint is on no server.
C20_NoUpwardCreation ==
    /\ [][pc # "idle" =>
            \A s \in Servers :
                /\ Len(server'[s]) <= Len(server[s])
                /\ \A i \in DOMAIN server'[s] : \E j \in DOMAIN server[s] :
                       server'[s][i].mid = server[s][j].mid]_vars
    /\ [](DeleteSetComputed =>
            Range(mlist) =
                {m \in Observed : m.HashId \notin (mdict \ StrayOnlyKeys)})

\* a Sync has run on a server that holds a message while the maildir has
\* a file whose fingerprint is on no server
C20_Witness ==
    /\ pc = "done"
    /\ ~dryRun
    /\ StrayFiles # {}
    /\ \E s \in Servers : inbox0[s] # <<>>

\* the flag string of a file name: S, A and J for Seen, Answered and Junk
\* in the order of the flags, and S when that leaves nothing
RECURSIVE Letters(_)
Letters(flags) ==
    IF flags = <<>> THEN ""
    ELSE (CASE Head(flags) = SeenFlag -> "S"
            [] Head(flags) = AnsweredFlag -> "A"
            [] Head(flags) = "Junk" -> "J"
            [] OTHER -> "") \o Letters(Tail(flags))

FlagString(flags) == IF Letters(flags) = "" THEN "S" ELSE Letters(flags)

\* C21: a file is written to new/ under <ts>.<fingerprint>.<host> when
\* Recent is among the flags of the message, which it always is in a
\* fetch of the new messages, and to cur/ under
\* <ts>.<fingerprint>.<host>:2,<flagstring> otherwise.
C21_NameFollowsFlags ==
    \A i \in DOMAIN workers :
        LET w == workers[i]
            recent == RecentFlag \in Range(w.flags)
        IN  /\ op = "fetch-new" => recent
            /\ w.file # NoFile =>
                  /\ w.file.sub = IF recent THEN "new" ELSE "cur"
                  /\ Len(w.file.name) = 3
                  /\ w.file.name[1] = ToString(now)
                  /\ w.file.name[2] = w.hid
                  /\ w.file.name[3] =
                        IF recent THEN hostname
                        ELSE hostname \o ":2," \o FlagString(w.flags)

\* a fetch-all has written a message with the flags Deleted, Answered and
\* Seen to cur/ and one with the flag Deleted alone
C21_Witness ==
    /\ op = "fetch-all"
    /\ \E i, j \in DOMAIN workers :
           /\ workers[i].flags = <<DeletedFlag, AnsweredFlag, SeenFlag>>
           /\ workers[i].file \in fs
           /\ workers[i].file.name[3] = "host:2,AS"
           /\ workers[j].flags = <<DeletedFlag>>
           /\ workers[j].file \in fs
           /\ workers[j].file.name[3] = "host:2,S"

\* the last call of the DB module was fn, and a step of it failed or, for
\* an insert, the table had a row of the fingerprint
CallFailed(fn) == ret.fn = fn /\ (ret.fault # "none" \/ ret.hit)

\* C22: an insert whose fingerprint or Message-ID is in the table, or
\* whose statement or commit fails, returns an error to its caller and
\* leaves the rows of the table as they were.
C22_InsertAtomicAndReported ==
    /\ [](CallFailed("insert") => ret.err # "nil")
    /\ [][CallFailed("insert")' => index' = index]_vars

\* C23: a delete in which no step of the transaction fails returns nil
\* whether or not the table has a row of the fingerprint, leaves no row of
\* it, so that a find right after it finds nothing and a second delete
\* returns nil again and changes nothing; no delete touches a row of
\* another fingerprint.
C23_DeleteIdempotent ==
    /\ []((ret.fn = "delete" /\ ret.fault = "none") =>
            /\ ret.err = "nil"
            /\ ~findMessage(ret.hid)
            /\ ~findReturn(index, ret.hid, "none", TRUE).found
            /\ deleteReturn(index, ret.hid, "none", TRUE) = "nil"
            /\ deleteRows(index, ret.hid) = index)
    /\ [][ret'.fn = "delete" =>
            \A r \in index \cup index' :
                r.HashId # ret'.hid => (r \in index <=> r \in index')]_vars
    /\ [][(ret.fn = "delete" /\ ret.fault = "none" /\ ret'.fn = "find"
              /\ ret'.hid = ret.hid) => ~ret'.found]_vars

\* a delete of a fingerprint the table did not have has returned nil
\* while the table holds a row of another fingerprint
C23_Witness ==
    /\ ret.fn = "delete"
    /\ ret.fault = "none"
    /\ ~ret.hit
    /\ ret.err = "nil"
    /\ index # {}

\* the servers whose snapshot is in channel mch
InChannel == {mch[i].srv : i \in DOMAIN mch}

\* C24: Sync issues a store or an expunge only after it has received the
\* snapshot of every session, one from each goroutine it started, and
\* once all goroutines are started the collection comes to its end.
C24_SnapshotBeforeDelete ==
    /\ [](pc \in {"spawn", "collect"} =>
            /\ issued = {}
            /\ InChannel \cap spawned = {}
            /\ Cardinality(InChannel) = Len(mch)
            /\ nrecv + Len(mch) + Cardinality(spawned)
                  + (IF pc = "spawn" THEN Cardinality(todo) ELSE 0)
                  = Cardinality(Servers))
    /\ []((pc = "syncMails" \/ issued # {}) =>
            /\ nrecv = Cardinality(Servers)
            /\ spawned = {}
            /\ mch = <<>>
            /\ \A s \in Servers : inbox0[s] = <<>> => snaps[s] = <<>>)
    /\ (pc = "collect") ~> (pc = "syncMails")

\* a Sync has deleted a message on each of the two servers
C24_Witness ==
    /\ pc = "done"
    /\ \E c, d \in issued :
           c.srv = "A" /\ d.srv = "B" /\ c.cmd = "expunge" /\ d.cmd = "expunge"

\* sequence number seq of mailbox inbox denotes a message with Message-ID mid
Denotes(inbox, seq, mid) ==
    seq \in DOMAIN inbox /\ inbox[seq].env /\ inbox[seq].mid = mid

\* C25: the sequence number a snapshot records for a message is the one
\* the server gave it in that selection, and when syncMails is about to
\* store and expunge a message the number still denotes that message.
C25_SeqNumberDenotesMessage ==
    /\ \A s \in Servers : \A m \in Range(snaps[s]) :
           Denotes(inbox0[s], m.SeqNumber, m.MessageId)
    /\ (pc = "syncMails" /\ cur # Nil /\ pos <= Len(mlist) /\ ~dryRun) =>
           Denotes(server[cur], mlist[pos].SeqNumber, mlist[pos].MessageId)

\* C26: when the streamed fetch of a server has ended in an error, the
\* run writes no mail of that server and computes no delete set: the
\* operation has ended.
C26_StreamErrorTerminates ==
    cutoff # {} =>
        /\ \A i \in DOMAIN workers : workers[i].imapName \notin cutoff
        /\ ~DeleteSetComputed
        /\ pc \in {"aborted", "idle"}

\* C27: writeMail writes to the folder that readMaildir has created and
\* reads for the same server and folder name, slashes as dots, and after
\* a fetch of all messages the scan of that folder has the fingerprint
\* of every message of the server.
C27_SlashFolderSameDirectory ==
    /\ \A i \in DOMAIN workers :
           TargetFile(workers[i], now).fdir =
               scanFolder(workers[i].imapName, workers[i].folder)
    /\ (pc = "done" /\ op = "fetch-all") =>
           \A s \in Servers : \A i \in DOMAIN server[s] :
               server[s][i].env =>
                   md5hash(server[s][i].mid) \in readMaildir(s, flagFolder)

\* the files of cur, new and tmp of the folder readMaildir reads
ScannedFiles(imapName, folder) ==
    {f \in fs : f.fdir = scanFolder(imapName, folder)
                    /\ f.sub \in {"cur", "new", "tmp"}}

\* C29: the keys of the map readMaildir returns are the fingerprints of
\* the files of cur, new and tmp, the second token of each file name,
\* whatever the maildir root, the server and the folder are.
C29_ScanKeysAreFingerprints ==
    \A imapName \in Servers \cup {""} : \A name \in FetchFolders :
        readMaildir(imapName, name) =
            {f.name[2] : f \in ScannedFiles(imapName, name)}

\* C30: no command is issued on a session while a fetch is in flight on
\* it: Move issues no select, store, copy or expunge, and main no logout,
\* before the streamed fetch that Move started has returned.
C30_OneCommandInFlight == overlap = {}

\* the write workers of the running imapSnapshot that have not returned
Running == {i \in DOMAIN workers : workers[i].pc \notin {"done", "torn"}}

\* C31: the fetch returns only after every write worker it started has
\* returned, and every started worker signals completion exactly once on
\* every return: the counter of the wait group is at every moment the
\* number of workers still running, the fetch leaves its wait only when no
\* worker runs, and no file appears in the maildir outside that wait.
C31_FetchWaitsForWriters ==
    /\ [](wg = Cardinality(Running))
    /\ [][(pc = "wait" /\ pc' # "wait") => Running = {}]_vars
    /\ [][pc # "wait" => fs' \subseteq fs]_vars

\* a fetch whose two workers have returned, one without creating its file
\* and one after a failed write
C31_Witness ==
    /\ pc = "wait" /\ wg = 0
    /\ \E i, j \in DOMAIN workers :
            /\ workers[i].pc = "done" /\ workers[i].file \notin fs
            /\ workers[j].pc = "torn"

\* a round of the inner loop of syncMails is taken
SyncDeletion == pc = "syncMails" /\ cur # Nil /\ pos <= Len(mlist) /\ pos' # pos

\* C32: in Sync a delete candidate observed on a server is deleted only
\* through that server's session: the round of syncMails for it issues no
\* store, copy or expunge on, and changes nothing of, any other server,
\* and it issues no copy at all.
C32_SyncDeletesOnObservingSession ==
    [][SyncDeletion =>
          /\ \A c \in issued' \ issued :
                c.srv = mlist[pos].Imap /\ c.cmd # "copy"
          /\ \A t \in Servers \ {mlist[pos].Imap} : server'[t] = server[t]]_vars

\* the candidates of both servers have been deleted, each on its own
\* session, while the other server still held its message
C32_Witness ==
    /\ pc = "syncMails"
    /\ \E i, j \in DOMAIN mlist : mlist[i].Imap = "A" /\ mlist[j].Imap = "B"
    /\ \A s \in Servers : [srv |-> s, cmd |-> "expunge"] \in issued
    /\ \A c \in issued : c.cmd # "copy"

\* Move has run on server s to its end
MoveRan(s) == pc = "move" /\ s \in todo /\ s \notin todo' /\ pc' # "fatal"

\* the sequence q without its element i
RemoveAt(q, i) == SubSeq(q, 1, i - 1) \o SubSeq(q, i + 1, Len(q))

\* the commands of the log of the move that change a mailbox
Changing(log) ==
    {k \in DOMAIN log : log[k].cmd \in {"storeSeen", "copy", "storeDeleted", "expunge"}}

\* C33: Move acts on the first envelope of the INBOX stream whose
\* Message-ID equals match and on no other: after Move the INBOX is the
\* one before it without that message, so a later message with the same
\* Message-ID is left in place, and when no envelope matches Move issues
\* no store, copy or expunge and the server is unchanged.
C33_MoveActsOnFirstMatchOnly ==
    [][\A s \in Servers : MoveRan(s) =>
          LET i == FirstStop(server[s], match, 1)
          IN  IF i = 0 \/ ~server[s][i].env
              THEN server' = server /\ dest' = dest
                   /\ Changing(mvlog') = Changing(mvlog)
              ELSE server'[s] = RemoveAt(server[s], i)]_vars

\* C34: a move or a sync deletion of message m removes from INBOX only m:
\* whenever a step shortens the INBOX of a server, the INBOX after it is
\* the one before it without one message, so every other message, also
\* one that carried the Deleted flag before, is still there after the
\* expunge.
C34_ExpungeRemovesOnlyTheMessage ==
    [][\A s \in Servers : Len(server'[s]) < Len(server[s]) =>
          \E i \in DOMAIN server[s] : server'[s] = RemoveAt(server[s], i)]_vars

\* Move has returned from, or has been ended by log.Fatal on, server s
MoveLeft(s) == pc = "move" /\ s \in todo /\ s \notin todo'

C36_ConnectCollectsEverySession ==
    /\ [][pc = "connect" /\ pc' = "folders" =>
            /\ cmap = Servers /\ ch = <<>>
            /\ \A s \in Servers : sess[s] = "open"]_vars
    /\ [](chClosed => ch = <<>> /\ \A s \in Servers : sess[s] # "none")
    /\ [](chClosed => \A s \in Servers : sess[s] = "open" => s \in cmap)
    /\ [](pc = "connect" /\ (\E s \in Servers : sess[s] = "none")
            => Len(ch) < chCap)

\* connect has returned the map of the sessions of both servers and has
\* closed ch, which is empty
C36_Witness ==
    /\ pc = "folders" /\ chClosed
    /\ cmap = Servers /\ ch = <<>>
    /\ \A s \in Servers : sess[s] = "open"

====
